---- MODULE Spec2Model ----
(***************************************************************************)
(* Model of the time-interval algebra of orekitfactory.time:               *)
(*   _dateinterval.py      DateInterval and the is_* predicates            *)
(*   _dateintervallist.py  DateIntervalList and list_union,                *)
(*                         list_intersection, list_subtract,               *)
(*                         list_compliment                                 *)
(*                                                                         *)
(* An AbsoluteDate is modelled by an integer (only compareTo / equals are  *)
(* used by the code modelled here).  A DateInterval is the record          *)
(* [start, stop] of its IntervalData.  A DateIntervalList is its private   *)
(* boundary sequence __dates = <<s0, e0, s1, e1, ...>>.  Python's None is  *)
(* the empty sequence where a value is optional (an optional x is <<>> or  *)
(* <<x>>).  Python indices are 0-based; Nth(s, i) reads s[i].              *)
(***************************************************************************)
EXTENDS Integers, Sequences, FiniteSets, TLC

\* Dates of the operand lists, spans and queries are 0..MaxDate.
MaxDate == 5
\* An operand list holds at most MaxIntervals intervals.
MaxIntervals == 3
\* Dates of the two operands of a binary operation are 0..MaxOperandDate.
MaxOperandDate == 4
\* Dates of the raw constructor input are 0..MaxInputDate.
MaxInputDate == 4
\* The raw constructor input holds at most MaxInput intervals.
MaxInput == 3
\* Dates of the intervals of a list built without reduction: 0..MaxFlatDate.
MaxFlatDate == 3
\* Dates of the builder's bounds and events: 0..MaxBuilderDate.
MaxBuilderDate == 3
\* add_start and add_stop are called while they leave the buffer this short.
MaxBuffer == 3
\* build_list is called at most this many times in a row.
MaxBuilds == 2
\* Amounts given to pad: -MaxPad..MaxPad.
MaxPad == 3
\* Dates of the lists whose intersection is followed step by step: 0..MaxSweepDate.
MaxSweepDate == 3
\* Dates of the lists and spans in a sequence of operations: 0..MaxSequenceDate.
MaxSequenceDate == 2

VARIABLES
    op,             \* the call that produced result ("init": none yet)
    intervals,      \* DateIntervalList(intervals=...): the raw input
    reduce_input,   \* DateIntervalList(reduce_input=...)
    list1,          \* boundary sequence of the first operand (self, lst)
    list2,          \* boundary sequence of the second operand
    other,          \* contains(other, ...): a date or an interval
    startInclusive, \* contains(..., startInclusive=...)
    stopInclusive,  \* contains(..., stopInclusive=...)
    span,           \* list_compliment(lst, span=...): <<>> is None
    allow_zero_length, \* list_intersection(..., allow_zero_length=...)
    result,         \* what the call returned or raised
    arg_idx,        \* list[idx]
    dropped,        \* history: list_compliment dropped a trailing odd boundary
    sweep_i,        \* list_intersection: the pointer i into list1
    sweep_j,        \* list_intersection: the pointer j into list2
    sweep_results,  \* list_intersection: the intervals found so far
    sweep_iterations, \* history: iterations of the loop of list_intersection
    arg_start,      \* DateInterval(start, stop): the first endpoint given
    arg_stop,       \* DateInterval(start, stop): the second endpoint given
    arg_time,       \* pad(time), in the unit of the dates
    arg_inclusive,  \* intersect(other, endpoint_inclusive=...)
    builder_start,  \* DateIntervalListBuilder.__start (None when not given)
    builder_stop,   \* DateIntervalListBuilder.__stop (None when not given)
    builder_dates,  \* DateIntervalListBuilder.__dates, the boundary buffer
    arg_date,       \* add_start(date) / add_stop(date)
    accepted,       \* history: the accepted events in order, "start" or "stop"
    builds          \* history: build_list calls since the last add_ call

sweepVars == <<sweep_i, sweep_j, sweep_results, sweep_iterations>>

listVars == <<intervals, reduce_input, list1, list2, other, startInclusive,
              stopInclusive, span, allow_zero_length, arg_idx, dropped,
              sweepVars>>

intervalVars == <<arg_start, arg_stop, arg_time, arg_inclusive>>

builderVars == <<builder_start, builder_stop, builder_dates, arg_date, accepted, builds>>

vars == <<op, result, listVars, intervalVars, builderVars>>

----------------------------------------------------------------------------
\* Python values

\* s[i] with a 0-based index i >= 0.
Nth(s, i) == s[i + 1]

\* A call's outcome: a returned boundary sequence, interval or bool, or the
\* exception the call raised (error # "").
Return(d) == [error |-> "", dates |-> d, interval |-> <<>>, truth |-> FALSE]

ReturnInterval(ivl) ==
    [error |-> "", dates |-> <<>>, interval |-> <<ivl>>, truth |-> FALSE]

ReturnBool(b) == [error |-> "", dates |-> <<>>, interval |-> <<>>, truth |-> b]

Raise(e) == [error |-> e, dates |-> <<>>, interval |-> <<>>, truth |-> FALSE]

NoResult == Raise("not called")

\* Python's None where a date is expected (the builder's bounds).
None == -1

\* The operands after a call as they would be if the call built its result
\* in the boundary sequence of its first operand.
OperandsAfter_shared(l1, l2, res) ==
    [list1 |-> IF res.error = "" THEN res.dates ELSE l1, list2 |-> l2]

\* The boundary sequences of the operands of a call after the call. The
\* operations only read them: list_union iterates them into a new list,
\* list_intersection indexes them, list_compliment copies the boundaries it
\* keeps with list(filter(...)) before it inserts and pops, and contains,
\* __getitem__ and __iter__ read the stored sequence.
OperandsAfter(l1, l2, res) == [list1 |-> l1, list2 |-> l2]

----------------------------------------------------------------------------
\* _dateinterval.py

\* AbsoluteDate.compareTo
compareTo(a, b) == IF a < b THEN -1 ELSE IF a > b THEN 1 ELSE 0

\* The constructor as it would be if it kept the endpoints as given.
DateInterval_as_given(t0, t1) == [start |-> t0, stop |-> t1]

\* DateInterval.__init__: endpoints given in the wrong order are swapped.
DateInterval(t0, t1) ==
    IF compareTo(t0, t1) > 0
    THEN [start |-> t1, stop |-> t0]
    ELSE [start |-> t0, stop |-> t1]

\* overlaps as it would be with the flag startInclusive ignored (always open).
overlaps_open_start(self, o, startIncl, stopIncl) ==
    LET v1 == IF stopIncl THEN 0 ELSE 1
    IN  /\ compareTo(self.start, o.stop) <= -1
        /\ compareTo(self.stop, o.start) >= v1

\* DateInterval.overlaps
overlaps(self, o, startIncl, stopIncl) ==
    LET v0 == IF startIncl THEN 0 ELSE -1
        v1 == IF stopIncl THEN 0 ELSE 1
    IN  /\ compareTo(self.start, o.stop) <= v0
        /\ compareTo(self.stop, o.start) >= v1

\* DateInterval.union as it would be if it kept the stop of self.
union_keep_stop(self, o) ==
    LET t0 == IF compareTo(self.start, o.start) <= 0 THEN self.start ELSE o.start
    IN  DateInterval(t0, self.stop)

\* DateInterval.union
union(self, o) ==
    LET t0 == IF compareTo(self.start, o.start) <= 0 THEN self.start ELSE o.start
        t1 == IF compareTo(self.stop, o.stop) >= 0 THEN self.stop ELSE o.stop
    IN  DateInterval(t0, t1)

\* intersect as it would be if it kept the start of self.
intersect_keep_start(self, o, endpoint_inclusive) ==
    LET t0 == self.start
        t1 == IF compareTo(self.stop, o.stop) <= 0 THEN self.stop ELSE o.stop
        cmp == IF endpoint_inclusive THEN 1 ELSE 0
    IN  IF compareTo(t0, t1) < cmp THEN <<DateInterval(t0, t1)>> ELSE <<>>

\* intersect as it would be if it always counted a common endpoint.
intersect_inclusive(self, o, endpoint_inclusive) ==
    LET t0 == IF compareTo(self.start, o.start) >= 0 THEN self.start ELSE o.start
        t1 == IF compareTo(self.stop, o.stop) <= 0 THEN self.stop ELSE o.stop
    IN  IF compareTo(t0, t1) < 1 THEN <<DateInterval(t0, t1)>> ELSE <<>>

\* DateInterval.intersect: <<the interval>>, or <<>> for None.
intersect(self, o, endpoint_inclusive) ==
    LET t0 == IF compareTo(self.start, o.start) >= 0 THEN self.start ELSE o.start
        t1 == IF compareTo(self.stop, o.stop) <= 0 THEN self.stop ELSE o.stop
        cmp == IF endpoint_inclusive THEN 1 ELSE 0
    IN  IF compareTo(t0, t1) < cmp THEN <<DateInterval(t0, t1)>> ELSE <<>>

\* DateInterval.duration_secs
duration_secs(self) == self.stop - self.start

\* pad as it would be if it also rejected the amount that leaves a
\* zero-length interval.
pad_reject_zero_length(self, time) ==
    LET padSeconds == time
    IN  IF (2 * padSeconds) <= 0 - duration_secs(self)
        THEN Raise("ValueError")
        ELSE ReturnInterval(DateInterval(self.start - padSeconds,
                                         self.stop + padSeconds))

\* DateInterval.pad, the amount in the unit of the dates.
pad(self, time) ==
    LET padSeconds == time
    IN  IF (2 * padSeconds) < 0 - duration_secs(self)
        THEN Raise("ValueError")
        ELSE ReturnInterval(DateInterval(self.start - padSeconds,
                                         self.stop + padSeconds))

\* DateInterval.__lt__
lt(self, o) ==
    LET rv == compareTo(self.start, o.start)
    IN  IF rv = 0 THEN compareTo(self.stop, o.stop) < 0 ELSE rv < 0

\* The argument `other` of the is_* predicates: an AbsoluteDate (kind "date",
\* start = stop = the date) or a DateInterval (kind "interval").
Date(t) == [kind |-> "date", start |-> t, stop |-> t]

Interval(ivl) == [kind |-> "interval", start |-> ivl.start, stop |-> ivl.stop]

\* is_contained_in as it would be if an interval that only overlaps
\* [start, stop] counted as contained.
is_contained_in_partly(o, start, stop, startIncl, stopIncl) ==
    LET v0 == IF startIncl THEN 0 ELSE -1
        v1 == IF stopIncl THEN 0 ELSE 1
    IN  IF o.kind = "interval"
        THEN /\ compareTo(start, o.stop) <= v0
             /\ compareTo(stop, o.start) >= v1
        ELSE /\ compareTo(start, o.start) <= v0
             /\ compareTo(stop, o.start) >= v1

\* is_contained_in
is_contained_in(o, start, stop, startIncl, stopIncl) ==
    LET v0 == IF startIncl THEN 0 ELSE -1
        v1 == IF stopIncl THEN 0 ELSE 1
    IN  IF o.kind = "interval"
        THEN /\ compareTo(start, o.start) <= v0
             /\ compareTo(stop, o.stop) >= v1
        ELSE /\ compareTo(start, o.start) <= v0
             /\ compareTo(stop, o.start) >= v1

\* DateInterval.contains
DateInterval_contains(self, o, startIncl, stopIncl) ==
    is_contained_in(o, self.start, self.stop, startIncl, stopIncl)

\* is_strictly_before: [start, stop] ends before `other` begins.
is_strictly_before(o, start, stop) == compareTo(stop, o.start) < 0

\* is_strictly_after: [start, stop] begins after `other` ends.
is_strictly_after(o, start, stop) ==
    IF o.kind = "interval"
    THEN compareTo(start, o.stop) > 0
    ELSE compareTo(start, o.start) > 0

----------------------------------------------------------------------------
\* _dateintervallist.py: DateIntervalList

\* list.sort() as it would be if it left the list in the order given.
sort_keep_order(s) == s

\* list.sort() on DateInterval values: a stable sort by __lt__.
RECURSIVE SortInsert(_, _)
SortInsert(x, s) ==
    IF s = <<>> THEN <<x>>
    ELSE IF lt(x, Head(s)) THEN <<x>> \o s
    ELSE <<Head(s)>> \o SortInsert(x, Tail(s))

RECURSIVE sort(_)
sort(s) ==
    IF s = <<>> THEN <<>>
    ELSE SortInsert(s[Len(s)], sort(SubSeq(s, 1, Len(s) - 1)))

\* DateIntervalList._flatten, and the closing loop of _reduce.
RECURSIVE _flatten(_)
_flatten(ivls) ==
    IF ivls = <<>> THEN <<>>
    ELSE <<Head(ivls).start, Head(ivls).stop>> \o _flatten(Tail(ivls))

\* The while loop of _reduce as it would be if it moved on to the next index
\* after a merge too.
RECURSIVE ReduceLoop_move_on(_, _)
ReduceLoop_move_on(combined, i) ==
    IF ~(i < Len(combined)) THEN combined
    ELSE LET j == i - 1
         IN  IF overlaps(Nth(combined, i), Nth(combined, j), TRUE, TRUE)
             THEN ReduceLoop_move_on(
                      [k \in 1..(Len(combined) - 1) |->
                          IF k - 1 < j THEN Nth(combined, k - 1)
                          ELSE IF k - 1 = j
                               THEN union(Nth(combined, j), Nth(combined, i))
                               ELSE Nth(combined, k)],
                      i + 1)
             ELSE ReduceLoop_move_on(combined, i + 1)

\* The while loop of _reduce, at index i of the sorted list `combined`.
RECURSIVE ReduceLoop(_, _)
ReduceLoop(combined, i) ==
    IF ~(i < Len(combined)) THEN combined
    ELSE LET j == i - 1
         IN  IF overlaps(Nth(combined, i), Nth(combined, j), TRUE, TRUE)
             THEN ReduceLoop(
                      [k \in 1..(Len(combined) - 1) |->
                          IF k - 1 < j THEN Nth(combined, k - 1)
                          ELSE IF k - 1 = j
                               THEN union(Nth(combined, j), Nth(combined, i))
                               ELSE Nth(combined, k)],
                      i)
             ELSE ReduceLoop(combined, i + 1)

\* DateIntervalList._reduce
_reduce(ivls) == _flatten(ReduceLoop(sort(ivls), 1))

\* DateIntervalList.__init__ with intervals=...: the stored __dates.
NewFromIntervals(ivls, reduce) ==
    IF ivls # <<>>
    THEN IF reduce THEN _reduce(ivls) ELSE _flatten(ivls)
    ELSE <<>>

\* DateIntervalList.__init__ with _dates=...: an empty _dates is falsy.
NewFromDates(_dates) == IF _dates # <<>> THEN _dates ELSE <<>>

\* DateIntervalList.__len__
len(dates) == Len(dates) \div 2

\* DateIntervalList.__getitem__ for 0 <= idx < len.
getitem(dates, idx) == DateInterval(Nth(dates, idx * 2), Nth(dates, idx * 2 + 1))

\* Indexing of a tuple as it would be if a negative index were out of range.
subscript_from_zero(s, i) ==
    IF 0 <= i /\ i < Len(s) THEN <<s[i + 1]>> ELSE <<>>

\* Python's s[i] on a tuple or list: <<the element>>, or <<>> for IndexError.
\* A negative index counts from the end.
subscript(s, i) ==
    IF 0 <= i /\ i < Len(s) THEN <<s[i + 1]>>
    ELSE IF 0 - Len(s) <= i /\ i < 0 THEN <<s[Len(s) + i + 1]>>
    ELSE <<>>

\* DateIntervalList.__getitem__ for any integer idx.
__getitem__(dates, idx) ==
    LET first == subscript(dates, idx * 2)
        second == subscript(dates, idx * 2 + 1)
    IN  IF first = <<>> \/ second = <<>>
        THEN Raise("IndexError")
        ELSE ReturnInterval(DateInterval(first[1], second[1]))

\* list(lst): the intervals __iter__ yields.
iter(dates) == [k \in 1..len(dates) |-> getitem(dates, k - 1)]

\* span as it would be if an empty list answered with a zero-length marker
\* interval instead of failing.
span_of_empty_marker(dates) ==
    IF dates = <<>>
    THEN ReturnInterval(DateInterval(0, 0))
    ELSE ReturnInterval(DateInterval(Nth(dates, 0), dates[Len(dates)]))

\* DateIntervalList.span (a cached property): __dates[0] of an empty tuple
\* raises IndexError.
span_of(dates) ==
    IF dates = <<>>
    THEN Raise("IndexError")
    ELSE ReturnInterval(DateInterval(Nth(dates, 0), dates[Len(dates)]))

\* The for loop of DateIntervalList.contains, at index i of __dates.
RECURSIVE ContainsLoop(_, _, _, _, _)
ContainsLoop(dates, o, startIncl, stopIncl, i) ==
    IF ~(i < Len(dates) - 1) THEN FALSE
    ELSE LET start == Nth(dates, i)
             stop == Nth(dates, i + 1)
         IN  IF i = 0 /\ is_strictly_before(o, start, stop) THEN FALSE
             ELSE IF is_contained_in(o, start, stop, startIncl, stopIncl) THEN TRUE
             ELSE IF is_strictly_after(o, start, stop) THEN FALSE
             ELSE ContainsLoop(dates, o, startIncl, stopIncl, i + 2)

\* DateIntervalList.contains
contains(dates, o, startIncl, stopIncl) ==
    ContainsLoop(dates, o, startIncl, stopIncl, 0)

----------------------------------------------------------------------------
\* _dateintervallist.py: the set algebra

\* list_union
list_union(l1, l2) == NewFromIntervals(iter(l1) \o iter(l2), TRUE)

\* The while loop of list_intersection as it would be if every step advanced
\* both pointers.
RECURSIVE IntersectionLoop_advance_both(_, _, _, _, _, _)
IntersectionLoop_advance_both(l1, l2, allow_zero, i, j, results) ==
    IF ~(i < len(l1) /\ j < len(l2)) THEN results
    ELSE IntersectionLoop_advance_both(
             l1, l2, allow_zero, i + 1, j + 1,
             results \o intersect(getitem(l1, i), getitem(l2, j), allow_zero))

\* The while loop of list_intersection, at the pointers i and j.
RECURSIVE IntersectionLoop(_, _, _, _, _, _)
IntersectionLoop(l1, l2, allow_zero, i, j, results) ==
    IF ~(i < len(l1) /\ j < len(l2)) THEN results
    ELSE LET a == getitem(l1, i)
             b == getitem(l2, j)
             found == intersect(a, b, allow_zero)
         IN  IF compareTo(a.stop, b.stop) < 0
             THEN IntersectionLoop(l1, l2, allow_zero, i + 1, j, results \o found)
             ELSE IntersectionLoop(l1, l2, allow_zero, i, j + 1, results \o found)

\* One iteration of list_intersection as it would be if a tie of the stops
\* advanced i.
SweepAdvance_tie_first(l1, l2, i, j) ==
    IF compareTo(getitem(l1, i).stop, getitem(l2, j).stop) <= 0
    THEN [i |-> i + 1, j |-> j]
    ELSE [i |-> i, j |-> j + 1]

\* One iteration of the loop of list_intersection: the pointers after it.
\* l1 and l2 are DateInterval values, which are true in `if l1 and l2`.
SweepAdvance(l1, l2, i, j) ==
    IF compareTo(getitem(l1, i).stop, getitem(l2, j).stop) < 0
    THEN [i |-> i + 1, j |-> j]
    ELSE [i |-> i, j |-> j + 1]

\* list_intersection
list_intersection(l1, l2, allow_zero) ==
    NewFromIntervals(IntersectionLoop(l1, l2, allow_zero, 0, 0, <<>>), FALSE)

\* ComplimentIn as it would be without the elision of a zero-length first gap.
ComplimentIn_keep_first_gap(lst, s) ==
    LET inside(d) == is_contained_in(Date(d), s.start, s.stop, TRUE, TRUE)
        dates1 == <<s.start>> \o SelectSeq(lst, inside) \o <<s.stop>>
        dates2 == IF dates1 # <<>> /\ dates1[Len(dates1)] = dates1[Len(dates1) - 1]
                  THEN SubSeq(dates1, 1, Len(dates1) - 2)
                  ELSE dates1
        dates3 == IF Len(dates2) % 2 # 0
                  THEN SubSeq(dates2, 1, Len(dates2) - 1)
                  ELSE dates2
    IN  Return(NewFromDates(dates3))

\* ComplimentIn as it would be without the elision of a zero-length last gap.
ComplimentIn_keep_last_gap(lst, s) ==
    LET inside(d) == is_contained_in(Date(d), s.start, s.stop, TRUE, TRUE)
        dates0 == <<s.start>> \o SelectSeq(lst, inside) \o <<s.stop>>
        dates1 == IF Nth(dates0, 0) = Nth(dates0, 1)
                  THEN SubSeq(dates0, 3, Len(dates0))
                  ELSE dates0
        dates3 == IF Len(dates1) % 2 # 0
                  THEN SubSeq(dates1, 1, Len(dates1) - 1)
                  ELSE dates1
    IN  Return(NewFromDates(dates3))

\* The filter of list_compliment as it would be if span were open at its stop.
ComplimentFilter_open_stop(lst, s) ==
    LET inside(d) == is_contained_in(Date(d), s.start, s.stop, TRUE, FALSE)
    IN  SelectSeq(lst, inside)

\* The filter of list_compliment: the boundaries of the list that lie inside
\* the closed span.
ComplimentFilter(lst, s) ==
    LET inside(d) == is_contained_in(Date(d), s.start, s.stop, TRUE, TRUE)
    IN  SelectSeq(lst, inside)

\* list_compliment up to its last step: the boundaries inside span, bracketed
\* by span's endpoints, a zero-length first and last gap dropped.  dates[-2]
\* of a one-element list raises IndexError.
ComplimentBeforeDrop(lst, s) ==
    LET dates0 == <<s.start>> \o ComplimentFilter(lst, s) \o <<s.stop>>
        dates1 == IF Nth(dates0, 0) = Nth(dates0, 1)
                  THEN SubSeq(dates0, 3, Len(dates0))
                  ELSE dates0
        dates2 == IF dates1 # <<>> /\ dates1[Len(dates1)] = dates1[Len(dates1) - 1]
                  THEN SubSeq(dates1, 1, Len(dates1) - 2)
                  ELSE dates1
    IN  IF Len(dates1) = 1
        THEN Raise("IndexError")
        ELSE Return(dates2)

\* list_compliment within the interval s: its last step drops a trailing odd
\* boundary, and the list is built of the boundaries that remain.
ComplimentIn(lst, s) ==
    LET before == ComplimentBeforeDrop(lst, s)
        dates2 == before.dates
        dates3 == IF Len(dates2) % 2 # 0
                  THEN SubSeq(dates2, 1, Len(dates2) - 1)
                  ELSE dates2
    IN  IF before.error # ""
        THEN before
        ELSE Return(NewFromDates(dates3))

\* list_compliment: sp is the argument span, <<>> for None.
list_compliment(lst, sp) ==
    IF sp = <<>>
    THEN IF span_of(lst).error # ""
         THEN Raise(span_of(lst).error)
         ELSE ComplimentIn(lst, span_of(lst).interval[1])
    ELSE ComplimentIn(lst, sp[1])

\* list_compliment(lst, sp) reaches its last step with an odd number of
\* boundaries and drops the trailing one.
Drops(lst, sp) ==
    LET s == IF sp = <<>> THEN span_of(lst).interval ELSE sp
    IN  /\ s # <<>>
        /\ ComplimentBeforeDrop(lst, s[1]).error = ""
        /\ Len(ComplimentBeforeDrop(lst, s[1]).dates) % 2 # 0

\* list_subtract
list_subtract(l1, l2) ==
    LET holes == list_intersection(l1, l2, FALSE)
    IN  IF span_of(l1).error # ""
        THEN Raise(span_of(l1).error)
        ELSE list_compliment(holes, span_of(l1).interval)

----------------------------------------------------------------------------
\* _dateintervallist.py: DateIntervalListBuilder
\* Each method gives the buffer __dates after the call and the call's outcome.

\* add_start as it would be without the check of the buffer.
add_start_unchecked(dates, date) ==
    [dates |-> Append(dates, date), result |-> Return(<<>>)]

\* DateIntervalListBuilder.add_start
add_start(dates, date) ==
    IF Len(dates) % 2 # 0
    THEN [dates |-> dates, result |-> Raise("ValueError")]
    ELSE [dates |-> Append(dates, date), result |-> Return(<<>>)]

\* add_stop as it would be if it appended the date before checking the buffer.
add_stop_check_late(start, dates, date) ==
    LET seeded == IF dates = <<>> /\ start # None THEN <<start>> ELSE dates
        appended == Append(seeded, date)
    IN  IF Len(appended) % 2 # 0
        THEN [dates |-> appended, result |-> Raise("ValueError")]
        ELSE [dates |-> appended, result |-> Return(<<>>)]

\* DateIntervalListBuilder.add_stop
add_stop(start, dates, date) ==
    LET seeded == IF dates = <<>> /\ start # None THEN <<start>> ELSE dates
    IN  IF Len(seeded) % 2 = 0
        THEN [dates |-> seeded, result |-> Raise("ValueError")]
        ELSE [dates |-> Append(seeded, date), result |-> Return(<<>>)]

\* The list that build_list makes of a buffer of even length; DateInterval
\* raises ValueError when its stop is None.
BuildFrom(closed) ==
    IF \E k \in 1..(Len(closed) \div 2) : closed[2 * k] = None
    THEN Raise("ValueError")
    ELSE Return(NewFromIntervals(
             [k \in 1..(Len(closed) \div 2) |->
                 DateInterval(closed[2 * k - 1], closed[2 * k])],
             TRUE))

\* build_list as it would be if it emptied the buffer after building.
build_list_consume(stop, dates) ==
    LET closed == IF Len(dates) % 2 # 0 THEN Append(dates, stop) ELSE dates
    IN  [dates |-> <<>>, result |-> BuildFrom(closed)]

\* build_list as it would be if it dropped a start that has no stop.
build_list_drop_open(stop, dates) ==
    LET closed == IF Len(dates) % 2 # 0
                  THEN SubSeq(dates, 1, Len(dates) - 1) ELSE dates
    IN  [dates |-> closed, result |-> BuildFrom(closed)]

\* DateIntervalListBuilder.build_list
build_list(stop, dates) ==
    LET closed == IF Len(dates) % 2 # 0 THEN Append(dates, stop) ELSE dates
    IN  [dates |-> closed, result |-> BuildFrom(closed)]

----------------------------------------------------------------------------
\* The values the inputs are drawn from

Dates == 0..MaxDate

DateIntervals == {DateInterval(a, b) : a, b \in Dates}

InputIntervals == {DateInterval(a, b) : a, b \in 0..MaxInputDate}

FlatInputs ==
    UNION {[1..n -> {DateInterval(a, b) : a, b \in 0..MaxFlatDate}] : n \in 0..MaxInput}

RawInputs == UNION {[1..n -> InputIntervals] : n \in 0..MaxInput}

\* The boundary sequences of at most n intervals with dates in lo..hi that a
\* reducing constructor can store.
RECURSIVE ListsFrom(_, _, _)
ListsFrom(lo, hi, n) ==
    {<<>>} \cup
    (IF n = 0 THEN {}
     ELSE UNION {{<<a, b>> \o rest : rest \in ListsFrom(b + 1, hi, n - 1)} :
                    <<a, b>> \in {x \in (lo..hi) \X (lo..hi) : x[1] <= x[2]}})

ReducedLists == ListsFrom(0, MaxDate, MaxIntervals)

OperandLists == ListsFrom(0, MaxOperandDate, MaxIntervals)

Spans == {<<>>} \cup {<<ivl>> : ivl \in DateIntervals}

Others == {Date(t) : t \in Dates} \cup {Interval(ivl) : ivl \in DateIntervals}

\* The canonical storage: even length, s_i <= e_i and e_i < s_{i+1}.
Canonical(dates) ==
    /\ Len(dates) % 2 = 0
    /\ \A k \in 1..Len(dates) - 1 :
          IF k % 2 = 1 THEN dates[k] <= dates[k + 1] ELSE dates[k] < dates[k + 1]

\* The variables of the interval operations and of the builder while no
\* interval operation is called and no builder exists.
NoInterval ==
    /\ arg_start = 0
    /\ arg_stop = 0
    /\ arg_time = 0
    /\ arg_inclusive = TRUE

\* The variables of the loop of list_intersection while it is not followed.
NoSweep ==
    /\ sweep_i = 0
    /\ sweep_j = 0
    /\ sweep_results = <<>>
    /\ sweep_iterations = 0

NoBuilder ==
    /\ builder_start = None
    /\ builder_stop = None
    /\ builder_dates = <<>>
    /\ arg_date = None
    /\ accepted = <<>>
    /\ builds = 0

----------------------------------------------------------------------------
\* Construction with reduction or flattening

InitReduce ==
    /\ op = "init"
    /\ intervals \in RawInputs
    /\ reduce_input = TRUE
    /\ list1 = <<>>
    /\ list2 = <<>>
    /\ other = Date(0)
    /\ startInclusive = TRUE
    /\ stopInclusive = FALSE
    /\ span = <<>>
    /\ allow_zero_length = FALSE
    /\ result = NoResult
    /\ arg_idx = 0
    /\ dropped = FALSE
    /\ NoSweep
    /\ NoInterval
    /\ NoBuilder

\* DateIntervalList(intervals=intervals, reduce_input=r)
Construct ==
    /\ op = "init"
    /\ \E r \in BOOLEAN :
          /\ reduce_input' = r
          /\ result' = Return(NewFromIntervals(intervals, r))
    /\ op' = "DateIntervalList"
    /\ UNCHANGED <<intervals, list1, list2, other, startInclusive,
                   stopInclusive, span, allow_zero_length, arg_idx>>
    /\ UNCHANGED <<sweepVars, intervalVars, builderVars, dropped>>

\* DateIntervalList(intervals=list(L), reduce_input=True) of the list L that
\* a construction with reduction returned; L is kept in list1.
ConstructAgain ==
    /\ op = "DateIntervalList"
    /\ reduce_input
    /\ op' = "DateIntervalList again"
    /\ list1' = result.dates
    /\ result' = Return(NewFromIntervals(iter(result.dates), TRUE))
    /\ UNCHANGED <<intervals, reduce_input, list2, other, startInclusive,
                   stopInclusive, span, allow_zero_length, arg_idx>>
    /\ UNCHANGED <<sweepVars, intervalVars, builderVars, dropped>>

NextReduce == Construct \/ ConstructAgain

SpecReduce == InitReduce /\ [][NextReduce]_vars

\* The stored interval k (1-based) of a boundary sequence.
StartOf(dates, k) == dates[2 * k - 1]

StopOf(dates, k) == dates[2 * k]

\* C1: a list built with reduction from any finite collection of intervals,
\* in any order, stores a boundary sequence of even length with s_i <= e_i
\* and e_i < s_{i+1} strictly: overlapping, nested and touching inputs are
\* merged, every input interval lies inside one stored interval, and every
\* stored boundary is a boundary of the input.
C1_ReduceCanonical ==
    (op = "DateIntervalList" /\ reduce_input) =>
        /\ result.error = ""
        /\ Canonical(result.dates)
        /\ \A n \in 1..Len(intervals) :
              \E k \in 1..len(result.dates) :
                  /\ StartOf(result.dates, k) <= intervals[n].start
                  /\ intervals[n].stop <= StopOf(result.dates, k)
        /\ \A k \in 1..len(result.dates) :
              /\ \E n \in 1..Len(intervals) :
                    intervals[n].start = StartOf(result.dates, k)
              /\ \E n \in 1..Len(intervals) :
                    intervals[n].stop = StopOf(result.dates, k)

\* C1 witness: an unsorted input with an overlapping and a touching pair is
\* merged into the single interval [0, 4].
C1_Witness ==
    /\ op = "DateIntervalList"
    /\ reduce_input
    /\ intervals = <<DateInterval(1, 3), DateInterval(0, 2), DateInterval(3, 4)>>
    /\ result = Return(<<0, 4>>)

\* C14: building a list with reduction from the intervals of a list that is
\* already reduced returns the same boundary sequence.
C14_ReduceIdempotent ==
    op = "DateIntervalList again" => result = Return(list1)

\* C14 at work: a list of two intervals, the first one merged from two
\* inputs, is rebuilt with reduction.
C14_Witness ==
    /\ op = "DateIntervalList again"
    /\ intervals = <<DateInterval(3, 4), DateInterval(1, 2), DateInterval(0, 1)>>
    /\ list1 = <<0, 2, 3, 4>>
    /\ result = Return(<<0, 2, 3, 4>>)

----------------------------------------------------------------------------
\* Containment queries on a reduced list

InitContains ==
    /\ op = "init"
    /\ intervals = <<>>
    /\ reduce_input = TRUE
    /\ list1 \in ReducedLists
    /\ list2 = <<>>
    /\ other \in Others
    /\ startInclusive \in BOOLEAN
    /\ stopInclusive \in BOOLEAN
    /\ span = <<>>
    /\ allow_zero_length = FALSE
    /\ result = NoResult
    /\ arg_idx = 0
    /\ dropped = FALSE
    /\ NoSweep
    /\ NoInterval
    /\ NoBuilder

\* list1.contains(other, startInclusive, stopInclusive)
Contains ==
    /\ op = "init"
    /\ result' = ReturnBool(contains(list1, other, startInclusive, stopInclusive))
    /\ op' = "contains"
    /\ list1' = OperandsAfter(list1, list2, result').list1
    /\ list2' = OperandsAfter(list1, list2, result').list2
    /\ UNCHANGED <<intervals, reduce_input, other,
                   startInclusive, stopInclusive, span, allow_zero_length, arg_idx>>
    /\ UNCHANGED <<sweepVars, intervalVars, builderVars, dropped>>

NextContains == Contains

SpecContains == InitContains /\ [][NextContains]_vars

\* C2: on a reduced list, contains returns true exactly when some stored
\* interval, at any index, contains the query under the given flags.
C2_ContainsAnyInterval ==
    op = "contains" =>
        result = ReturnBool(\E k \in 1..len(list1) :
                                is_contained_in(other, StartOf(list1, k),
                                                StopOf(list1, k),
                                                startInclusive, stopInclusive))

----------------------------------------------------------------------------
\* The binary set operations on two reduced lists

InitAlgebra ==
    /\ op = "init"
    /\ intervals = <<>>
    /\ reduce_input = TRUE
    /\ list1 \in OperandLists
    /\ list2 \in OperandLists
    /\ other = Date(0)
    /\ startInclusive = TRUE
    /\ stopInclusive = FALSE
    /\ span = <<>>
    /\ allow_zero_length = FALSE
    /\ result = NoResult
    /\ arg_idx = 0
    /\ dropped = FALSE
    /\ NoSweep
    /\ NoInterval
    /\ NoBuilder

\* list_subtract(list1, list2)
Subtract ==
    /\ op = "init"
    /\ result' = list_subtract(list1, list2)
    /\ dropped' = Drops(list_intersection(list1, list2, FALSE), span_of(list1).interval)
    /\ op' = "list_subtract"
    /\ list1' = OperandsAfter(list1, list2, result').list1
    /\ list2' = OperandsAfter(list1, list2, result').list2
    /\ UNCHANGED <<intervals, reduce_input, other,
                   startInclusive, stopInclusive, span, allow_zero_length, arg_idx>>
    /\ UNCHANGED <<sweepVars, intervalVars, builderVars>>

\* list_intersection(list1, list2, allow_zero_length=z)
Intersection ==
    /\ op = "init"
    /\ \E z \in BOOLEAN :
          /\ allow_zero_length' = z
          /\ result' = Return(list_intersection(list1, list2, z))
    /\ op' = "list_intersection"
    /\ list1' = OperandsAfter(list1, list2, result').list1
    /\ list2' = OperandsAfter(list1, list2, result').list2
    /\ UNCHANGED <<intervals, reduce_input, other,
                   startInclusive, stopInclusive, span, arg_idx>>
    /\ UNCHANGED <<sweepVars, intervalVars, builderVars, dropped>>

\* list_union(list1, list2)
Union ==
    /\ op = "init"
    /\ result' = Return(list_union(list1, list2))
    /\ op' = "list_union"
    /\ list1' = OperandsAfter(list1, list2, result').list1
    /\ list2' = OperandsAfter(list1, list2, result').list2
    /\ UNCHANGED <<intervals, reduce_input, other,
                   startInclusive, stopInclusive, span, allow_zero_length, arg_idx>>
    /\ UNCHANGED <<sweepVars, intervalVars, builderVars, dropped>>

NextAlgebra == Subtract \/ Intersection \/ Union

SpecAlgebra == InitAlgebra /\ [][NextAlgebra]_vars

\* The stretch of time [t, t + 1] lies inside one stored interval.
Covers(dates, t) ==
    \E k \in 1..len(dates) : StartOf(dates, k) <= t /\ t + 1 <= StopOf(dates, k)

Stretches == 0..(MaxDate - 1)

\* C3: for a non-empty A (an empty A is the case of C6), list_subtract(A, B)
\* returns a list that covers exactly the stretches of time covered by A and
\* not covered by B; gaps between the intervals of A are not part of it.
C3_SubtractIsDifference ==
    (op = "list_subtract" /\ list1 # <<>>) =>
        /\ result.error = ""
        /\ \A t \in Stretches :
              Covers(result.dates, t) <=> (Covers(list1, t) /\ ~Covers(list2, t))

\* C4: list_subtract(A, A) is the empty list for every non-empty A.
C4_SubtractSelfEmpty ==
    (op = "list_subtract" /\ list1 # <<>> /\ list2 = list1) => result = Return(<<>>)

\* C5: list_subtract(A, B) with B empty returns the boundary sequence of A,
\* for a non-empty A (an empty A is the case of C6).
C5_SubtractEmptyUnchanged ==
    (op = "list_subtract" /\ list1 # <<>> /\ list2 = <<>>) => result = Return(list1)

\* C6: list_subtract(A, B) with A empty returns the empty list for every B
\* and does not end in an error.
C6_SubtractFromEmpty ==
    (op = "list_subtract" /\ list1 = <<>>) => result = Return(<<>>)

\* The later of two dates and the earlier of two dates.
Later(a, b) == IF a >= b THEN a ELSE b

Earlier(a, b) == IF a <= b THEN a ELSE b

\* The pairs <<i, j>> whose intervals A[i] and B[j] share a stretch of positive
\* length, or share a single instant when single instants are asked for.
OverlappingPairs(A, B, zero) ==
    {p \in (1..len(A)) \X (1..len(B)) :
        LET from == Later(StartOf(A, p[1]), StartOf(B, p[2]))
            to == Earlier(StopOf(A, p[1]), StopOf(B, p[2]))
        IN  from < to \/ (zero /\ from = to)}

\* C11: for reduced A and B, list_intersection(A, B, allow_zero_length)
\* returns, in strictly ascending order, exactly the pairwise intersections
\* of an interval of A with an interval of B: those of positive length
\* always, those of a single instant exactly when allow_zero_length is set;
\* every such pair is reported once, and an empty operand gives an empty list.
C11_IntersectionIsPairwise ==
    op = "list_intersection" =>
        LET P == OverlappingPairs(list1, list2, allow_zero_length)
            R == result.dates
        IN  /\ result.error = ""
            /\ Len(R) = 2 * Cardinality(P)
            /\ \A p \in P : \E k \in 1..len(R) :
                  /\ StartOf(R, k) = Later(StartOf(list1, p[1]), StartOf(list2, p[2]))
                  /\ StopOf(R, k) = Earlier(StopOf(list1, p[1]), StopOf(list2, p[2]))
            /\ \A k \in 1..(len(R) - 1) :
                  \/ StartOf(R, k) < StartOf(R, k + 1)
                  \/ /\ StartOf(R, k) = StartOf(R, k + 1)
                     /\ StopOf(R, k) < StopOf(R, k + 1)
            /\ (list1 = <<>> \/ list2 = <<>>) => R = <<>>

\* C11 at work: an interval of B touches two intervals of A at single
\* instants, and allow_zero_length reports both.
C11_Witness ==
    /\ op = "list_intersection"
    /\ allow_zero_length
    /\ list1 = <<0, 2, 3, 4>>
    /\ list2 = <<2, 3>>
    /\ result = Return(<<2, 2, 3, 3>>)

\* The instant t lies inside one stored (closed) interval.
Holds(dates, t) ==
    \E k \in 1..len(dates) : StartOf(dates, k) <= t /\ t <= StopOf(dates, k)

\* C12: for reduced A and B, list_union(A, B) is a canonical list that covers
\* exactly the instants, and exactly the stretches of time, covered by A or
\* by B, so touching and overlapping intervals of the two operands are
\* merged; the union with an empty operand returns the other operand.
C12_UnionIsCover ==
    op = "list_union" =>
        /\ result.error = ""
        /\ Canonical(result.dates)
        /\ \A t \in Dates :
              Holds(result.dates, t) <=> (Holds(list1, t) \/ Holds(list2, t))
        /\ \A t \in Stretches :
              Covers(result.dates, t) <=> (Covers(list1, t) \/ Covers(list2, t))
        /\ list2 = <<>> => result.dates = list1
        /\ list1 = <<>> => result.dates = list2

\* C12 at work: an interval of B touches an interval of A and is merged with
\* it, while the other interval of A stays apart.
C12_Witness ==
    /\ op = "list_union"
    /\ list1 = <<0, 1, 3, 4>>
    /\ list2 = <<1, 2>>
    /\ result = Return(<<0, 2, 3, 4>>)

----------------------------------------------------------------------------
\* list_union of lists built without reduction

\* A is DateIntervalList(intervals=..., reduce_input=False) of the first
\* intervals of an input in any order and B the same of the remaining ones,
\* so A and B may be unsorted, overlapping, touching or nested.
InitUnreduced ==
    /\ op = "init"
    /\ intervals \in FlatInputs
    /\ reduce_input = FALSE
    /\ \E k \in 0..Len(intervals) :
          /\ list1 = NewFromIntervals(SubSeq(intervals, 1, k), FALSE)
          /\ list2 = NewFromIntervals(SubSeq(intervals, k + 1, Len(intervals)), FALSE)
    /\ other = Date(0)
    /\ startInclusive = TRUE
    /\ stopInclusive = FALSE
    /\ span = <<>>
    /\ allow_zero_length = FALSE
    /\ result = NoResult
    /\ arg_idx = 0
    /\ dropped = FALSE
    /\ NoSweep
    /\ NoInterval
    /\ NoBuilder

NextUnreduced == Union

SpecUnreduced == InitUnreduced /\ [][NextUnreduced]_vars

\* C13: list_union(A, B) and list_union(B, A) return the same boundary
\* sequence for all lists A and B, reduced or not.
C13_UnionCommutes ==
    op = "list_union" => result = Return(list_union(list2, list1))

\* C13 at work: A is built without reduction and is unsorted, and the union
\* merges its intervals with the interval of B.
C13_Witness ==
    /\ op = "list_union"
    /\ list1 = <<2, 3, 0, 1>>
    /\ list2 = <<1, 2>>
    /\ result = Return(<<0, 3>>)

----------------------------------------------------------------------------
\* span and list_compliment of a reduced list

InitCompliment ==
    /\ op = "init"
    /\ intervals = <<>>
    /\ reduce_input = TRUE
    /\ list1 \in ReducedLists
    /\ list2 = <<>>
    /\ other = Date(0)
    /\ startInclusive = TRUE
    /\ stopInclusive = FALSE
    /\ span \in Spans
    /\ allow_zero_length = FALSE
    /\ result = NoResult
    /\ arg_idx = 0
    /\ dropped = FALSE
    /\ NoSweep
    /\ NoInterval
    /\ NoBuilder

\* list1.span
Span ==
    /\ op = "init"
    /\ result' = span_of(list1)
    /\ op' = "span"
    /\ UNCHANGED <<intervals, reduce_input, list1, list2, other,
                   startInclusive, stopInclusive, span, allow_zero_length, arg_idx>>
    /\ UNCHANGED <<sweepVars, intervalVars, builderVars, dropped>>

\* list_compliment(list1, span)
Compliment ==
    /\ op = "init"
    /\ result' = list_compliment(list1, span)
    /\ dropped' = Drops(list1, span)
    /\ op' = "list_compliment"
    /\ list1' = OperandsAfter(list1, list2, result').list1
    /\ list2' = OperandsAfter(list1, list2, result').list2
    /\ UNCHANGED <<intervals, reduce_input, other,
                   startInclusive, stopInclusive, span, allow_zero_length, arg_idx>>
    /\ UNCHANGED <<sweepVars, intervalVars, builderVars>>

\* list_compliment(list_compliment(list1, span), span): the returned list is
\* complemented again over the same span.
ComplimentAgain ==
    /\ op = "list_compliment"
    /\ result.error = ""
    /\ result' = list_compliment(result.dates, span)
    /\ dropped' = Drops(result.dates, span)
    /\ op' = "list_compliment twice"
    /\ UNCHANGED <<intervals, reduce_input, list1, list2, other,
                   startInclusive, stopInclusive, span, allow_zero_length, arg_idx>>
    /\ UNCHANGED <<sweepVars, intervalVars, builderVars>>

NextCompliment == Span \/ Compliment \/ ComplimentAgain

SpecCompliment == InitCompliment /\ [][NextCompliment]_vars

\* Every stored interval has positive length.
PositiveLengths(dates) ==
    \A k \in 1..len(dates) : StartOf(dates, k) < StopOf(dates, k)

\* Every boundary lies inside the interval s.
Inside(dates, s) ==
    \A k \in 1..Len(dates) : s.start <= dates[k] /\ dates[k] <= s.stop

\* C7: for a reduced list S of positive-length intervals inside a
\* positive-length span (the span of S when span is omitted),
\* list_compliment(S, span) is the reduced list of the gaps of S within span:
\* positive-length intervals only (a zero-length gap at either end is
\* elided), covering exactly the stretches of span that S does not cover.
C7_ComplimentIsGaps ==
    LET s == IF span = <<>> THEN span_of(list1).interval[1] ELSE span[1]
    IN  ( /\ op = "list_compliment"
          /\ PositiveLengths(list1)
          /\ span = <<>> => list1 # <<>>
          /\ span # <<>> => (span[1].start < span[1].stop /\ Inside(list1, span[1])) )
        =>
        /\ result.error = ""
        /\ Canonical(result.dates)
        /\ PositiveLengths(result.dates)
        /\ \A t \in Stretches :
              Covers(result.dates, t) <=>
                  (s.start <= t /\ t + 1 <= s.stop /\ ~Covers(list1, t))

\* C7 witness: {[1,2],[3,4]} within [0,5] gives {[0,1],[2,3],[4,5]}.
C7_Witness ==
    /\ op = "list_compliment"
    /\ list1 = <<1, 2, 3, 4>>
    /\ span = <<DateInterval(0, 5)>>
    /\ result = Return(<<0, 1, 2, 3, 4, 5>>)

\* C8: list_compliment(list_compliment(S, span), span) has the boundary
\* sequence of S, for every reduced S inside span with no endpoint equal to
\* an endpoint of span.
C8_ComplimentInvolution ==
    ( /\ op = "list_compliment twice"
      /\ span # <<>>
      /\ Inside(list1, span[1])
      /\ \A k \in 1..Len(list1) :
            list1[k] # span[1].start /\ list1[k] # span[1].stop )
    => result = Return(list1)

\* C8 witness: {[1,1],[2,3]} within [0,4]; the first complement was
\* {[0,1],[1,2],[3,4]} and the second gives the list back.
C8_Witness ==
    /\ op = "list_compliment twice"
    /\ list1 = <<1, 1, 2, 3>>
    /\ span = <<DateInterval(0, 4)>>
    /\ result = Return(<<1, 1, 2, 3>>)

\* C9: list_compliment of the single zero-length interval [p,p] over an
\* explicit span containing p (here: of positive length) returns span as the
\* only interval, wherever p lies in span.
C9_ComplimentOfPoint ==
    ( /\ op = "list_compliment"
      /\ Len(list1) = 2
      /\ list1[1] = list1[2]
      /\ span # <<>>
      /\ span[1].start < span[1].stop
      /\ span[1].start <= list1[1]
      /\ list1[1] <= span[1].stop )
    => result = Return(<<span[1].start, span[1].stop>>)

\* C10: span of an empty list, and list_compliment of an empty list without
\* a span, end in an error and return nothing; list_compliment of an empty
\* list over an explicit positive-length span returns the list whose only
\* interval is span.
C10_EmptyListSpan ==
    /\ (op = "span" /\ list1 = <<>>) =>
          (result.error # "" /\ result.interval = <<>> /\ result.dates = <<>>)
    /\ (op = "list_compliment" /\ list1 = <<>> /\ span = <<>>) =>
          (result.error # "" /\ result.interval = <<>> /\ result.dates = <<>>)
    /\ (op = "list_compliment" /\ list1 = <<>> /\ span # <<>>
            /\ span[1].start < span[1].stop) =>
          result = Return(<<span[1].start, span[1].stop>>)

\* C10 witness: list_compliment of the empty list with no span has raised.
C10_Witness ==
    /\ op = "list_compliment"
    /\ list1 = <<>>
    /\ span = <<>>
    /\ result = Raise("IndexError")

----------------------------------------------------------------------------
\* DateIntervalListBuilder

BuilderDates == 0..MaxBuilderDate

\* DateIntervalListBuilder(start, stop), each bound given or left None.
InitBuilder ==
    /\ op = "DateIntervalListBuilder"
    /\ intervals = <<>>
    /\ reduce_input = TRUE
    /\ list1 = <<>>
    /\ list2 = <<>>
    /\ other = Date(0)
    /\ startInclusive = TRUE
    /\ stopInclusive = FALSE
    /\ span = <<>>
    /\ allow_zero_length = FALSE
    /\ result = NoResult
    /\ arg_idx = 0
    /\ dropped = FALSE
    /\ NoSweep
    /\ NoInterval
    /\ builder_start \in {None} \cup BuilderDates
    /\ builder_stop \in {None} \cup BuilderDates
    /\ builder_dates = <<>>
    /\ arg_date = None
    /\ accepted = <<>>
    /\ builds = 0

\* builder.add_start(date)
AddStart ==
    /\ \E date \in BuilderDates :
          LET call == add_start(builder_dates, date)
          IN  /\ Len(call.dates) <= MaxBuffer
              /\ arg_date' = date
              /\ builder_dates' = call.dates
              /\ result' = call.result
              /\ accepted' = IF call.result.error = ""
                              THEN Append(accepted, "start") ELSE accepted
    /\ op' = "add_start"
    /\ builds' = 0
    /\ UNCHANGED <<builder_start, builder_stop, listVars, intervalVars>>

\* builder.add_stop(date)
AddStop ==
    /\ \E date \in BuilderDates :
          LET call == add_stop(builder_start, builder_dates, date)
          IN  /\ Len(call.dates) <= MaxBuffer
              /\ arg_date' = date
              /\ builder_dates' = call.dates
              /\ result' = call.result
              /\ accepted' = IF call.result.error = ""
                              THEN Append(accepted, "stop") ELSE accepted
    /\ op' = "add_stop"
    /\ builds' = 0
    /\ UNCHANGED <<builder_start, builder_stop, listVars, intervalVars>>

\* builder.build_list()
BuildList ==
    /\ builds < MaxBuilds
    /\ LET call == build_list(builder_stop, builder_dates)
       IN  /\ builder_dates' = call.dates
           /\ result' = call.result
    /\ op' = "build_list"
    /\ builds' = builds + 1
    /\ UNCHANGED <<builder_start, builder_stop, arg_date, accepted,
                   listVars, intervalVars>>

\* The builder receiving events only.
NextEvents == AddStart \/ AddStop

SpecEvents == InitBuilder /\ [][NextEvents]_vars

\* The builder receiving events and building lists.
NextBuilder == AddStart \/ AddStop \/ BuildList

SpecBuilder == InitBuilder /\ [][NextBuilder]_vars

\* The last accepted event, "none" before the first one.
LastAccepted == IF accepted = <<>> THEN "none" ELSE accepted[Len(accepted)]

\* What a step of the builder does to a call, given the events accepted
\* before it.
AlternationStep ==
    /\ op' = "add_start" =>
          (result'.error = "ValueError" <=> LastAccepted = "start")
    /\ op' = "add_start" =>
          (result'.error = "" <=> LastAccepted # "start")
    /\ op' = "add_stop" =>
          (result'.error = "ValueError" <=>
              \/ LastAccepted = "stop"
              \/ LastAccepted = "none" /\ builder_start = None)
    /\ op' = "add_stop" =>
          (result'.error = "" <=>
              \/ LastAccepted = "start"
              \/ LastAccepted = "none" /\ builder_start # None)

\* C15: in every sequence of add_start and add_stop calls, add_start is
\* rejected exactly when the last accepted event was a start, and add_stop is
\* rejected exactly when the last accepted event was a stop or when it is
\* the first event of a builder without a lower bound; every other call is
\* accepted. The buffer holds an odd number of boundaries exactly while a
\* start awaits its stop.
C15_Alternation ==
    /\ [](Len(builder_dates) % 2 = 1 <=> LastAccepted = "start")
    /\ [][AlternationStep]_vars

\* C15 at work: a start, its stop and a second start were accepted, and a
\* further start has just been rejected while the second awaits its stop.
C15_Witness ==
    /\ op = "add_start"
    /\ result.error = "ValueError"
    /\ accepted = <<"start", "stop", "start">>
    /\ Len(builder_dates) = 3

\* C16: a rejected add_start or add_stop leaves the buffer, and with it the
\* whole builder, as it was before the call.
C16_RejectedLeavesBuffer ==
    [][(op' \in {"add_start", "add_stop"} /\ result'.error # "") =>
          /\ builder_dates' = builder_dates
          /\ builder_start' = builder_start
          /\ builder_stop' = builder_stop
          /\ accepted' = accepted]_vars

\* C16 at work: a builder without bounds took start(0) and stop(1), has just
\* rejected a second stop, and still holds the one interval [0, 1].
C16_Witness ==
    /\ op = "add_stop"
    /\ result.error = "ValueError"
    /\ builder_start = None
    /\ accepted = <<"start", "stop">>
    /\ builder_dates = <<0, 1>>

\* C17: when build_list returns a list, a second build_list with no event in
\* between returns a list with the same boundary sequence.
C17_BuildTwice ==
    [][(op = "build_list" /\ result.error = "" /\ op' = "build_list") =>
          result' = result]_vars

\* C17 at work: build_list was called twice in a row on a builder whose last
\* start had no stop, and has returned a list.
C17_Witness ==
    /\ op = "build_list"
    /\ builds = 2
    /\ LastAccepted = "start"
    /\ result.error = ""
    /\ result.dates # <<>>

\* C18: with bounds [L, U], add_stop(x) on the empty buffer is accepted and
\* opens the interval at L. build_list closes a final start that has no stop
\* at U, so the list covers the time between that start and U; when that
\* start is U itself and no other recorded interval reaches U, the
\* zero-length interval [U, U] is an interval of the list. When the closed
\* buffer is already canonical, the list has exactly its boundaries (bounds
\* [15, 20] with stop(16), start(17), stop(18), start(20) build
\* [15, 16], [17, 18], [20, 20]).
C18_BoundsCloseIntervals ==
    [][/\ (op' = "add_stop" /\ builder_dates = <<>> /\ builder_start # None) =>
           /\ result'.error = ""
           /\ builder_dates' = <<builder_start, arg_date'>>
       /\ (/\ op' = "build_list"
           /\ Len(builder_dates) % 2 = 1
           /\ builder_stop # None
           /\ \A k \in 1..Len(builder_dates) : builder_dates[k] # None) =>
           LET s == builder_dates[Len(builder_dates)]
               U == builder_stop
               R == result'.dates
               pairs == 1..(Len(builder_dates) \div 2)
           IN  /\ result'.error = ""
               /\ \E k \in 1..len(R) :
                     /\ StartOf(R, k) <= Earlier(s, U)
                     /\ Later(s, U) <= StopOf(R, k)
               /\ (/\ s = U
                   /\ \A k \in pairs :
                         \/ Later(StartOf(builder_dates, k), StopOf(builder_dates, k)) < U
                         \/ Earlier(StartOf(builder_dates, k), StopOf(builder_dates, k)) > U) =>
                     \E k \in 1..len(R) : StartOf(R, k) = U /\ StopOf(R, k) = U
               /\ Canonical(Append(builder_dates, U)) => R = Append(builder_dates, U)]_vars

\* C18 at work: bounds [0, 3] with stop(1) and start(3) build [0, 1], [3, 3].
C18_Witness ==
    /\ op = "build_list"
    /\ builder_start = 0
    /\ builder_stop = 3
    /\ accepted = <<"stop", "start">>
    /\ builder_dates = <<0, 1, 3, 3>>
    /\ result = Return(<<0, 1, 3, 3>>)

----------------------------------------------------------------------------
\* Indexed access

\* The indices tried: every valid one, and some on either side.
Indices == (0 - MaxIntervals - 1)..(MaxIntervals + 1)

InitIndex ==
    /\ op = "init"
    /\ intervals = <<>>
    /\ reduce_input = TRUE
    /\ list1 \in ReducedLists
    /\ list2 = <<>>
    /\ other = Date(0)
    /\ startInclusive = TRUE
    /\ stopInclusive = FALSE
    /\ span = <<>>
    /\ allow_zero_length = FALSE
    /\ result = NoResult
    /\ arg_idx = 0
    /\ dropped = FALSE
    /\ NoSweep
    /\ NoInterval
    /\ NoBuilder

\* list1[idx]
GetItem ==
    /\ op = "init"
    /\ op' = "getitem"
    /\ \E i \in Indices :
          /\ arg_idx' = i
          /\ result' = __getitem__(list1, i)
    /\ list1' = OperandsAfter(list1, list2, result').list1
    /\ list2' = OperandsAfter(list1, list2, result').list2
    /\ UNCHANGED <<intervals, reduce_input, other,
                   startInclusive, stopInclusive, span, allow_zero_length>>
    /\ UNCHANGED <<sweepVars, intervalVars, builderVars, dropped>>

NextIndex == GetItem

SpecIndex == InitIndex /\ [][NextIndex]_vars

\* C19 as stated: list[i] returns Interval(boundaries[2i], boundaries[2i+1])
\* for 0 <= i < len(list) and fails with an index error for every other
\* integer i, every negative i included.
C19_IndexOutsideFails ==
    op = "getitem" =>
        IF 0 <= arg_idx /\ arg_idx < len(list1)
        THEN result = ReturnInterval([start |-> list1[2 * arg_idx + 1],
                                      stop |-> list1[2 * arg_idx + 2]])
        ELSE result.error = "IndexError"

\* C19 amended: list[i] returns Interval(boundaries[2i], boundaries[2i+1])
\* for 0 <= i < len(list); for -len(list) <= i < 0 it returns the interval
\* at len(list) + i, counting from the end; it fails with an index error
\* exactly for i >= len(list) and for i < -len(list).
C19_IndexCountsFromEnd ==
    op = "getitem" =>
        LET n == len(list1)
            at == IF arg_idx < 0 THEN n + arg_idx ELSE arg_idx
        IN  IF 0 - n <= arg_idx /\ arg_idx < n
            THEN result = ReturnInterval([start |-> list1[2 * at + 1],
                                          stop |-> list1[2 * at + 2]])
            ELSE result.error = "IndexError"

\* C19 at work: index -1 of a list of two intervals returns the last one.
C19_Witness ==
    /\ op = "getitem"
    /\ list1 = <<0, 1, 3, 4>>
    /\ arg_idx = 0 - 1
    /\ result = ReturnInterval(DateInterval(3, 4))

----------------------------------------------------------------------------
\* DateInterval: construction, pad, union, intersect

Pads == (0 - MaxPad)..MaxPad

\* The endpoints are given in either order; self is the interval made of
\* them and other is a second interval.
InitInterval ==
    /\ op = "init"
    /\ intervals = <<>>
    /\ reduce_input = TRUE
    /\ list1 = <<>>
    /\ list2 = <<>>
    /\ other \in {Interval(ivl) : ivl \in DateIntervals}
    /\ startInclusive = TRUE
    /\ stopInclusive = FALSE
    /\ span = <<>>
    /\ allow_zero_length = FALSE
    /\ result = NoResult
    /\ arg_idx = 0
    /\ dropped = FALSE
    /\ NoSweep
    /\ arg_start \in Dates
    /\ arg_stop \in Dates
    /\ arg_time = 0
    /\ arg_inclusive = TRUE
    /\ NoBuilder

\* DateInterval(start, stop)
NewInterval ==
    /\ op = "init"
    /\ op' = "DateInterval"
    /\ result' = ReturnInterval(DateInterval(arg_start, arg_stop))
    /\ UNCHANGED <<listVars, intervalVars, builderVars>>

\* DateInterval(start, stop).pad(time)
Pad ==
    /\ op = "init"
    /\ op' = "pad"
    /\ \E t \in Pads :
          /\ arg_time' = t
          /\ result' = pad(DateInterval(arg_start, arg_stop), t)
    /\ UNCHANGED <<listVars, arg_start, arg_stop, arg_inclusive, builderVars>>

\* DateInterval(start, stop).union(other)
IntervalUnion ==
    /\ op = "init"
    /\ op' = "union"
    /\ result' = ReturnInterval(union(DateInterval(arg_start, arg_stop), other))
    /\ UNCHANGED <<listVars, intervalVars, builderVars>>

\* DateInterval(start, stop).intersect(other, endpoint_inclusive=e)
IntervalIntersect ==
    /\ op = "init"
    /\ op' = "intersect"
    /\ \E e \in BOOLEAN :
          LET found == intersect(DateInterval(arg_start, arg_stop), other, e)
          IN  /\ arg_inclusive' = e
              /\ result' = IF found = <<>> THEN Return(<<>>)
                            ELSE ReturnInterval(found[1])
    /\ UNCHANGED <<listVars, arg_start, arg_stop, arg_time, builderVars>>

\* DateInterval(start, stop).contains(other, startInclusive=si, stopInclusive=so)
IntervalContains ==
    /\ op = "init"
    /\ op' = "DateInterval.contains"
    /\ \E si, so \in BOOLEAN :
          /\ startInclusive' = si
          /\ stopInclusive' = so
          /\ result' = ReturnBool(DateInterval_contains(
                            DateInterval(arg_start, arg_stop), other, si, so))
    /\ UNCHANGED <<intervals, reduce_input, list1, list2, other, span,
                   allow_zero_length, arg_idx>>
    /\ UNCHANGED <<sweepVars, intervalVars, builderVars, dropped>>

NextInterval ==
    NewInterval \/ Pad \/ IntervalUnion \/ IntervalIntersect \/ IntervalContains

SpecInterval == InitInterval /\ [][NextInterval]_vars

\* C20: every interval made by the constructor, with its endpoints given in
\* either order, or returned by pad, union or intersect has its start at or
\* before its stop; the constructor given reversed endpoints swaps them, and
\* the interval equals the one made of the same endpoints in order.
C20_StartNotAfterStop ==
    /\ (op \in {"DateInterval", "pad", "union", "intersect"}
            /\ result.interval # <<>>) =>
           result.interval[1].start <= result.interval[1].stop
    /\ op = "DateInterval" =>
           /\ result = ReturnInterval([start |-> Earlier(arg_start, arg_stop),
                                       stop |-> Later(arg_start, arg_stop)])
           /\ result = ReturnInterval(DateInterval(arg_stop, arg_start))

\* C20 at work: the constructor was given its endpoints reversed.
C20_Witness ==
    /\ op = "DateInterval"
    /\ arg_start = 4
    /\ arg_stop = 1
    /\ result = ReturnInterval([start |-> 1, stop |-> 4])

\* C21: pad(amount) fails exactly when 2 * amount < -duration; for every
\* other amount it returns the interval [start - amount, stop + amount],
\* whose duration is duration + 2 * amount (zero at amount = -duration / 2),
\* and the interval that was padded keeps its endpoints.
C21_PadFailsWhenInverted ==
    op = "pad" =>
        LET start == Earlier(arg_start, arg_stop)
            stop == Later(arg_start, arg_stop)
            duration == stop - start
        IN  IF 2 * arg_time < 0 - duration
            THEN result.error = "ValueError"
            ELSE /\ result = ReturnInterval([start |-> start - arg_time,
                                             stop |-> stop + arg_time])
                 /\ duration_secs(result.interval[1]) = duration + 2 * arg_time
                 /\ (2 * arg_time = 0 - duration) =>
                        duration_secs(result.interval[1]) = 0

\* C21 at work: an interval of duration 2 padded by -1 is the zero-length
\* interval at its middle.
C21_Witness ==
    /\ op = "pad"
    /\ arg_start = 1
    /\ arg_stop = 3
    /\ arg_time = 0 - 1
    /\ result = ReturnInterval([start |-> 2, stop |-> 2])

\* C22: for all intervals a and b and all four settings of the two flags,
\* a.contains(b, si, so) is true exactly when a.contains(b.start, si, so) and
\* a.contains(b.stop, si, so) are both true; with the default flags (start
\* closed, stop open) a.contains(a) is false for every interval a.
C22_ContainsBothEnds ==
    op = "DateInterval.contains" =>
        LET a == DateInterval(arg_start, arg_stop)
        IN  /\ result.error = ""
            /\ result.truth <=>
                  /\ DateInterval_contains(a, Date(other.start),
                                           startInclusive, stopInclusive)
                  /\ DateInterval_contains(a, Date(other.stop),
                                           startInclusive, stopInclusive)
            /\ (other = Interval(a) /\ startInclusive /\ ~stopInclusive) =>
                  ~result.truth

\* C22 at work: with the default flags [1, 4] contains [2, 3].
C22_Witness ==
    /\ op = "DateInterval.contains"
    /\ arg_start = 1
    /\ arg_stop = 4
    /\ other = Interval(DateInterval(2, 3))
    /\ startInclusive
    /\ ~stopInclusive
    /\ result = ReturnBool(TRUE)

----------------------------------------------------------------------------
\* The last step of list_compliment

\* C24: when every interval of the reduced list given to list_compliment
\* lies inside span (span omitted means the span of the list), the last step
\* of list_compliment finds an even number of boundaries and drops nothing.
C24_NothingDroppedInsideSpan ==
    (op = "list_compliment" /\ (span = <<>> \/ Inside(list1, span[1]))) =>
        ~dropped

\* C24 at work: the complement of a list inside its span was built with
\* nothing dropped.
C24_Witness ==
    /\ op = "list_compliment"
    /\ list1 = <<1, 2, 3, 4>>
    /\ span = <<DateInterval(0, 5)>>
    /\ ~dropped
    /\ result = Return(<<0, 1, 2, 3, 4, 5>>)

\* The last step does drop a boundary when an interval of the list reaches
\* beyond span.
DroppedOutsideSpan ==
    /\ op = "list_compliment"
    /\ list1 = <<1, 3>>
    /\ span = <<DateInterval(0, 2)>>
    /\ dropped

----------------------------------------------------------------------------
\* Sequences of list_union, list_intersection, list_subtract, list_compliment

SequenceLists == ListsFrom(0, MaxSequenceDate, MaxIntervals)

SequenceSpans ==
    {<<>>} \cup {<<DateInterval(a, b)>> : a, b \in 0..MaxSequenceDate}

\* The second operand and the span of the next operation: a reduced list for
\* the operations on two lists, or a span for list_compliment.
NextOperands(l2, sp) ==
    \/ l2 \in SequenceLists /\ sp = <<>>
    \/ l2 = <<>> /\ sp \in SequenceSpans

InitSequence ==
    /\ op = "init"
    /\ intervals = <<>>
    /\ reduce_input = TRUE
    /\ list1 \in SequenceLists
    /\ NextOperands(list2, span)
    /\ other = Date(0)
    /\ startInclusive = TRUE
    /\ stopInclusive = FALSE
    /\ allow_zero_length = FALSE
    /\ result = NoResult
    /\ arg_idx = 0
    /\ dropped = FALSE
    /\ NoSweep
    /\ NoInterval
    /\ NoBuilder

\* The list an operation returned, when it has no more than MaxIntervals
\* intervals, is the first operand of the next one.
PassOn ==
    /\ op \in {"list_union", "list_intersection", "list_subtract", "list_compliment"}
    /\ result.error = ""
    /\ len(result.dates) <= MaxIntervals
    /\ op' = "init"
    /\ list1' = result.dates
    /\ NextOperands(list2', span')
    /\ allow_zero_length' = FALSE
    /\ dropped' = FALSE
    /\ result' = NoResult
    /\ UNCHANGED <<intervals, reduce_input, other, startInclusive,
                   stopInclusive, arg_idx>>
    /\ UNCHANGED <<sweepVars, intervalVars, builderVars>>

NextSequence == Subtract \/ Intersection \/ Union \/ Compliment \/ PassOn

SpecSequence == InitSequence /\ [][NextSequence]_vars

\* C23: starting from reduced lists, every list returned in a sequence of
\* list_union, list_intersection (with either value of allow_zero_length),
\* list_subtract and list_compliment (with any span) is canonical: even
\* length, s_i <= e_i and e_i < s_{i+1}.
C23_AlgebraKeepsCanonical ==
    (op \in {"list_union", "list_intersection", "list_subtract", "list_compliment"}
        /\ result.error = "") => Canonical(result.dates)

----------------------------------------------------------------------------
\* list_intersection followed iteration by iteration

SweepLists == ListsFrom(0, MaxSweepDate, MaxIntervals)

\* list_intersection(list1, list2, allow_zero_length) has been called and is
\* before its loop.
InitSweep ==
    /\ op = "list_intersection loop"
    /\ intervals = <<>>
    /\ reduce_input = FALSE
    /\ list1 \in SweepLists
    /\ list2 \in SweepLists
    /\ other = Date(0)
    /\ startInclusive = TRUE
    /\ stopInclusive = FALSE
    /\ span = <<>>
    /\ allow_zero_length \in BOOLEAN
    /\ result = NoResult
    /\ arg_idx = 0
    /\ dropped = FALSE
    /\ NoSweep
    /\ NoInterval
    /\ NoBuilder

\* One iteration of `while i < len(list1) and j < len(list2)`.
SweepStep ==
    /\ op = "list_intersection loop"
    /\ sweep_i < len(list1) /\ sweep_j < len(list2)
    /\ sweep_results' =
          sweep_results \o intersect(getitem(list1, sweep_i),
                                     getitem(list2, sweep_j), allow_zero_length)
    /\ sweep_i' = SweepAdvance(list1, list2, sweep_i, sweep_j).i
    /\ sweep_j' = SweepAdvance(list1, list2, sweep_i, sweep_j).j
    /\ sweep_iterations' = sweep_iterations + 1
    /\ UNCHANGED <<op, result, intervals, reduce_input, list1, list2, other,
                   startInclusive, stopInclusive, span, allow_zero_length,
                   arg_idx, dropped>>
    /\ UNCHANGED <<intervalVars, builderVars>>

\* The loop has ended: return DateIntervalList(intervals=results, reduce_input=False).
SweepReturn ==
    /\ op = "list_intersection loop"
    /\ ~(sweep_i < len(list1) /\ sweep_j < len(list2))
    /\ op' = "list_intersection"
    /\ result' = Return(NewFromIntervals(sweep_results, FALSE))
    /\ UNCHANGED <<intervals, reduce_input, list1, list2, other,
                   startInclusive, stopInclusive, span, allow_zero_length,
                   arg_idx, dropped>>
    /\ UNCHANGED <<sweepVars, intervalVars, builderVars>>

NextSweep == SweepStep \/ SweepReturn

SpecSweep == InitSweep /\ [][NextSweep]_vars

\* The interpreter goes on running the loop and the return.
SpecSweepFair == SpecSweep /\ WF_vars(NextSweep)

\* The loop followed step by step returns what list_intersection returns.
SweepAgrees ==
    op = "list_intersection" =>
        result = Return(list_intersection(list1, list2, allow_zero_length))

\* An iteration advances exactly one pointer by one: i when the interval of
\* list1 stops first, j otherwise, so j on a tie.
SweepRule ==
    (op = "list_intersection loop" /\ op' = "list_intersection loop") =>
        IF StopOf(list1, sweep_i + 1) < StopOf(list2, sweep_j + 1)
        THEN sweep_i' = sweep_i + 1 /\ sweep_j' = sweep_j
        ELSE sweep_i' = sweep_i /\ sweep_j' = sweep_j + 1

\* C25: the loop of list_intersection terminates. Every iteration advances
\* exactly one of the two pointers (i when A[i].stop < B[j].stop, otherwise
\* j, so a tie advances j), no pointer moves back or past the end of its
\* list, there are at most len(A) + len(B) iterations, and the function
\* returns, with one of the pointers at the end of its list.
C25_SweepTerminates ==
    /\ [][SweepRule]_vars
    /\ [](/\ sweep_i <= len(list1)
          /\ sweep_j <= len(list2)
          /\ sweep_iterations <= len(list1) + len(list2))
    /\ [](op = "list_intersection" =>
            (sweep_i = len(list1) \/ sweep_j = len(list2)))
    /\ <>(op = "list_intersection")

\* C25 at work: the second iteration met a tie of the stops and advanced j;
\* the loop ended after two iterations.
C25_Witness ==
    /\ op = "list_intersection"
    /\ list1 = <<0, 1, 2, 3>>
    /\ list2 = <<0, 3>>
    /\ sweep_i = 1
    /\ sweep_j = 1
    /\ sweep_iterations = 2
    /\ result = Return(<<0, 1, 2, 3>>)

----------------------------------------------------------------------------
\* The builder and its containing interval

\* C26: a builder constructed with start and stop builds a list inside
\* [start, stop]: every interval of the list that build_list returns starts
\* at or after start and stops at or before stop.
C26_BuildsInsideBounds ==
    (/\ op = "build_list"
     /\ result.error = ""
     /\ builder_start # None
     /\ builder_stop # None
     /\ builder_start <= builder_stop)
        => \A k \in 1..len(result.dates) :
              /\ builder_start <= StartOf(result.dates, k)
              /\ StopOf(result.dates, k) <= builder_stop

\* C28: build_list leaves the buffer of the builder as it was, both when it
\* returns a list and when it fails, so that an event is accepted after
\* build_list exactly when it was accepted before it.
C28_BuildKeepsBuffer ==
    [][op' = "build_list" =>
          /\ builder_dates' = builder_dates
          /\ \A date \in BuilderDates :
                /\ add_start(builder_dates', date).result.error
                      = add_start(builder_dates, date).result.error
                /\ add_stop(builder_start, builder_dates', date).result.error
                      = add_stop(builder_start, builder_dates, date).result.error]_vars

----------------------------------------------------------------------------
\* The operands of the operations on lists

\* for interval in list1: the intervals that __iter__ yields, by their
\* boundaries in the order they are yielded.
Iterate ==
    /\ op = "init"
    /\ op' = "iter"
    /\ result' = Return(_flatten(iter(list1)))
    /\ list1' = OperandsAfter(list1, list2, result').list1
    /\ list2' = OperandsAfter(list1, list2, result').list2
    /\ UNCHANGED <<intervals, reduce_input, other, startInclusive,
                   stopInclusive, span, allow_zero_length, arg_idx>>
    /\ UNCHANGED <<sweepVars, intervalVars, builderVars, dropped>>

\* The caller goes on with the lists it has read.
ReadAgain ==
    /\ op \in {"contains", "getitem", "iter"}
    /\ op' = "init"
    /\ result' = NoResult
    /\ arg_idx' = 0
    /\ UNCHANGED <<intervals, reduce_input, list1, list2, other, startInclusive,
                   stopInclusive, span, allow_zero_length>>
    /\ UNCHANGED <<sweepVars, intervalVars, builderVars, dropped>>

NextValues ==
    \/ Subtract \/ Intersection \/ Union \/ Compliment
    \/ Contains \/ GetItem \/ Iterate
    \/ PassOn \/ ReadAgain

\* Sequences of operations and reads on lists.
SpecValues == InitSequence /\ [][NextValues]_vars

----------------------------------------------------------------------------
\* Laws of list_intersection

\* C29: list_intersection is commutative: for reduced A and B and both values
\* of allow_zero_length, list_intersection(A, B) and list_intersection(B, A)
\* have the same boundary sequence.
C29_IntersectionCommutes ==
    op = "list_intersection" =>
        result = Return(list_intersection(list2, list1, allow_zero_length))

\* C29 at work: the stops of [0,2] and [1,2] tie, so the loop advances the
\* pointer of the second list whichever way round the operands are given,
\* and both orders return [1,2].
C29_Witness ==
    /\ op = "list_intersection"
    /\ ~allow_zero_length
    /\ list1 = <<0, 2>>
    /\ list2 = <<1, 2, 3, 4>>
    /\ result = Return(<<1, 2>>)
    /\ list_intersection(list2, list1, FALSE) = <<1, 2>>

\* The boundaries of the intervals of positive length of a list.
PositiveIntervals(dates) ==
    _flatten(SelectSeq(iter(dates), LAMBDA v : v.start < v.stop))

\* C30 as stated: list_intersection(A, A) with the default
\* allow_zero_length=false has the boundary sequence of A for every reduced
\* A, zero-length intervals included.
C30_SelfIntersectionIsIdentity ==
    (op = "list_intersection" /\ list2 = list1 /\ ~allow_zero_length)
        => result = Return(list1)

\* C30 amended: list_intersection(A, A) with the default
\* allow_zero_length=false returns the intervals of positive length of A in
\* order and none of its zero-length intervals, so it returns A exactly when
\* A has no zero-length interval; with allow_zero_length=true it returns A.
C30_SelfIntersectionKeepsPositive ==
    (op = "list_intersection" /\ list2 = list1) =>
        /\ ~allow_zero_length => result = Return(PositiveIntervals(list1))
        /\ ~allow_zero_length =>
              (result.dates = list1 <=> PositiveLengths(list1))
        /\ allow_zero_length => result = Return(list1)

\* C30 at work: the default intersection of [0,1],[2,2] with itself returns
\* [0,1] and drops the instant [2,2].
C30_Witness ==
    /\ op = "list_intersection"
    /\ ~allow_zero_length
    /\ list1 = <<0, 1, 2, 2>>
    /\ list2 = <<0, 1, 2, 2>>
    /\ result = Return(<<0, 1>>)

====
